---- MODULE Spec2Model ----
(***************************************************************************)
(* Model of the Firecrawl ratings scraper's credit gate                    *)
(* (src/scrape_firecrawl_ratings.py): the file-backed CreditTracker and    *)
(* the batch loop of main() that consults it; and of the batch loops of    *)
(* the four scripts run batch after batch on the providers table.          *)
(*                                                                         *)
(* Text is modelled as a sequence of one-character strings, so that the    *)
(* counter file is written by str() and read back by int(strip()) as the   *)
(* code does it.                                                           *)
(***************************************************************************)
EXTENDS Integers, Sequences, FiniteSets, TLC

----------------------------------------------------------------------------
(* Program constants *)

MAX_CREDITS == 2900

CREDITS_PER_SCRAPE == 2

----------------------------------------------------------------------------
(* Bounds of the model *)

\* number of operating-system process slots
NumProcs == 2

\* process invocations (or tracker instances) in one behaviour
MaxRuns == 2

\* largest BATCH_SIZE an invocation is configured with
MaxBatch == 2

\* most rows the backend returns for one fetch
MaxProviders == 2

\* largest BATCH_SIZE of overlapping runs, and most rows the backend returns
\* to one of them
MaxConcBatch == 1

\* rows of the providers table
MaxRows == 3

\* batches of one script run in order
MaxBatches == 2

\* largest amount the tracker's client passes to can_continue / add_credits
MaxAmount == 2

\* largest sum of amounts the tracker's client adds in one behaviour
MaxAdded == 5

\* most saves that fail in one behaviour on a counter file that can be opened
MaxFaults == 1

\* the same for overlapping runs
MaxConcFaults == 0

Procs == 1..NumProcs

----------------------------------------------------------------------------
(* Text: str(int), str.strip(), int(str) *)

\* the digits str() writes
DigitChars == <<"0", "1", "2", "3", "4", "5", "6", "7", "8", "9">>

\* the decimal digits (Unicode category Nd) int() reads, one row of ten for
\* each script whose digits a string of this module can hold; the first row
\* is DigitChars
DigitRows ==
    << <<"0", "1", "2", "3", "4", "5", "6", "7", "8", "9">>,
       <<"۰", "۱", "۲", "۳", "۴", "۵", "۶", "۷", "۸", "۹">>,
       <<"߀", "߁", "߂", "߃", "߄", "߅", "߆", "߇", "߈", "߉">>,
       <<"০", "১", "২", "৩", "৪", "৫", "৬", "৭", "৮", "৯">>,
       <<"૦", "૧", "૨", "૩", "૪", "૫", "૬", "૭", "૮", "૯">>,
       <<"௦", "௧", "௨", "௩", "௪", "௫", "௬", "௭", "௮", "௯">>,
       <<"೦", "೧", "೨", "೩", "೪", "೫", "೬", "೭", "೮", "೯">>,
       <<"෦", "෧", "෨", "෩", "෪", "෫", "෬", "෭", "෮", "෯">>,
       <<"໐", "໑", "໒", "໓", "໔", "໕", "໖", "໗", "໘", "໙">>,
       <<"႐", "႑", "႒", "႓", "႔", "႕", "႖", "႗", "႘", "႙">>,
       <<"០", "១", "២", "៣", "៤", "៥", "៦", "៧", "៨", "៩">>,
       <<"᧐", "᧑", "᧒", "᧓", "᧔", "᧕", "᧖", "᧗", "᧘", "᧙">>,
       <<"᪀", "᪁", "᪂", "᪃", "᪄", "᪅", "᪆", "᪇", "᪈", "᪉">>,
       <<"᪐", "᪑", "᪒", "᪓", "᪔", "᪕", "᪖", "᪗", "᪘", "᪙">>,
       <<"᮰", "᮱", "᮲", "᮳", "᮴", "᮵", "᮶", "᮷", "᮸", "᮹">>,
       <<"꣐", "꣑", "꣒", "꣓", "꣔", "꣕", "꣖", "꣗", "꣘", "꣙">>,
       <<"꧐", "꧑", "꧒", "꧓", "꧔", "꧕", "꧖", "꧗", "꧘", "꧙">>,
       <<"꧰", "꧱", "꧲", "꧳", "꧴", "꧵", "꧶", "꧷", "꧸", "꧹">>,
       <<"꯰", "꯱", "꯲", "꯳", "꯴", "꯵", "꯶", "꯷", "꯸", "꯹">> >>

\* int() takes c as a decimal digit
IsDigit(c) == \E r \in 1..Len(DigitRows), k \in 1..10 : DigitRows[r][k] = c

\* the value int() gives to the decimal digit c
DigitVal(c) ==
    (CHOOSE k \in 1..10 : \E r \in 1..Len(DigitRows) : DigitRows[r][k] = c) - 1

\* the characters str.strip() removes (str.isspace()): space, \t, \n, \f, \r,
\* vertical tab (0x0b), the separators 0x1c..0x1f, next line (U+0085),
\* no-break space (U+00A0) and the Ogham space mark (U+1680)
IsSpace(c) ==
    c \in {" ", "\t", "\n", "\f", "\r", "", "", "", "", "",
           "", " ", " "}

\* the characters int() skips around the number: those of IsSpace except the
\* separators 0x1c..0x1f
IntSpace(c) ==
    c \in {" ", "\t", "\n", "\f", "\r", "", "", " ", " "}

RECURSIVE NatToStr(_)
NatToStr(n) ==
    IF n < 10 THEN <<DigitChars[n + 1]>>
    ELSE NatToStr(n \div 10) \o <<DigitChars[(n % 10) + 1]>>

\* str(n) of a Python int
IntToStr(n) == IF n < 0 THEN <<"-">> \o NatToStr(0 - n) ELSE NatToStr(n)

RECURSIVE LStrip(_)
LStrip(s) == IF s # <<>> /\ IsSpace(Head(s)) THEN LStrip(Tail(s)) ELSE s

RECURSIVE RStrip(_)
RStrip(s) ==
    IF s # <<>> /\ IsSpace(s[Len(s)]) THEN RStrip(SubSeq(s, 1, Len(s) - 1))
    ELSE s

\* str.strip()
Strip(s) == RStrip(LStrip(s))

\* f.read() of a file opened in text mode: universal newlines turn \r\n and
\* \r into \n
RECURSIVE ReadText(_)
ReadText(s) ==
    IF s = <<>> THEN <<>>
    ELSE IF Head(s) = "\r"
         THEN <<"\n">> \o ReadText(IF Len(s) >= 2 /\ s[2] = "\n"
                                    THEN Tail(Tail(s)) ELSE Tail(s))
         ELSE <<Head(s)>> \o ReadText(Tail(s))

\* the digit groups int() accepts after the sign: digits, single underscores
\* only between two digits
WellFormedDigits(s) ==
    /\ s # <<>>
    /\ IsDigit(s[1])
    /\ IsDigit(s[Len(s)])
    /\ \A k \in 1..Len(s) : IsDigit(s[k]) \/ s[k] = "_"
    /\ \A k \in 1..(Len(s) - 1) : ~(s[k] = "_" /\ s[k + 1] = "_")

RECURSIVE DigitsValue(_, _)
DigitsValue(s, acc) ==
    IF s = <<>> THEN acc
    ELSE IF Head(s) = "_" THEN DigitsValue(Tail(s), acc)
    ELSE DigitsValue(Tail(s), 10 * acc + DigitVal(Head(s)))

\* s without the characters int() skips before and after the number
IntStrip(s) ==
    LET kept == {k \in 1..Len(s) : ~IntSpace(s[k])}
    IN  IF kept = {} THEN <<>>
        ELSE SubSeq(s, CHOOSE k \in kept : \A j \in kept : k <= j,
                       CHOOSE k \in kept : \A j \in kept : k >= j)

\* the most digits int() converts (sys.int_info.default_max_str_digits of
\* Python 3.11)
DEFAULT_MAX_STR_DIGITS == 4300

\* int(s) of a Python str: [ok |-> FALSE] stands for ValueError
ParseInt(s) ==
    LET t    == IntStrip(s)
        sgn  == t # <<>> /\ t[1] \in {"-", "+"}
        body == IF sgn THEN Tail(t) ELSE t
    IN  IF /\ WellFormedDigits(body)
           /\ Cardinality({k \in 1..Len(body) : body[k] # "_"})
                 <= DEFAULT_MAX_STR_DIGITS
        THEN [ok |-> TRUE,
              value |-> IF sgn /\ t[1] = "-" THEN 0 - DigitsValue(body, 0)
                        ELSE DigitsValue(body, 0)]
        ELSE [ok |-> FALSE, value |-> 0]

----------------------------------------------------------------------------
(* The counter file /tmp/firecrawl_credits_used.txt *)

\* exists:   os.path.exists(credits_file)
\* openable: open() succeeds (FALSE for a directory or a path that cannot
\*           be opened by this user, for reading as for writing)
\* content:  the text of the file
AbsentFile == [exists |-> FALSE, openable |-> FALSE, content |-> <<>>]

LockedFile == [exists |-> TRUE, openable |-> FALSE, content |-> <<>>]

TextFile(s) == [exists |-> TRUE, openable |-> TRUE, content |-> s]

----------------------------------------------------------------------------
(* CreditTracker *)

\* _load_credits with an except clause that catches only a missing file
load_credits_strict(f) ==
    IF f.exists
    THEN IF f.openable
         THEN LET r == ParseInt(Strip(ReadText(f.content)))
              IN  IF r.ok THEN [raised |-> FALSE, value |-> r.value]
                  ELSE [raised |-> TRUE, value |-> 0]
         ELSE [raised |-> TRUE, value |-> 0]
    ELSE [raised |-> FALSE, value |-> 0]

\* _load_credits: raised is TRUE when an exception leaves the method
load_credits(f) ==
    IF f.exists
    THEN IF f.openable
         THEN LET r == ParseInt(Strip(ReadText(f.content)))
              IN  IF r.ok THEN [raised |-> FALSE, value |-> r.value]
                  ELSE [raised |-> FALSE, value |-> 0]
         ELSE [raised |-> FALSE, value |-> 0]
    ELSE [raised |-> FALSE, value |-> 0]

\* what open(.., 'w') does; "opened" is the call inside its with block
OpenOutcomes == {"opened", "open_fails"}

\* the opens the file allows: a path that cannot be opened cannot be written
OpenOutcomesOf(f) ==
    IF f.exists /\ ~f.openable THEN {"open_fails"} ELSE OpenOutcomes

\* how the with block ends
CloseOutcomes == {"ok", "write_fails"}

\* a failure of the environment, which a counter file that cannot be opened
\* is not
Fault(f, outcome) ==
    \/ outcome = "write_fails"
    \/ outcome = "open_fails" /\ "opened" \in OpenOutcomesOf(f)

\* the numbers of characters of str(used) that reach the file: all of them
\* when the write succeeds, a proper prefix when it fails, none before it
Written(used, outcome) ==
    CASE outcome = "ok"          -> {Len(IntToStr(used))}
      [] outcome = "write_fails" -> 0..(Len(IntToStr(used)) - 1)
      [] OTHER                   -> {0}

\* text written at the beginning of a file holding old: what lies beyond
\* the written characters stays
Overwrite(old, text) == text \o SubSeq(old, Len(text) + 1, Len(old))

\* _save_credits opening the file with mode 'a'
save_credits_append(f, used, outcome, written) ==
    LET text == SubSeq(IntToStr(used), 1, written)
    IN  CASE outcome = "open_fails"  -> [file |-> f, raised |-> FALSE]
          [] outcome = "opened"      -> [file |-> TextFile(f.content), raised |-> FALSE]
          [] outcome = "write_fails" -> [file |-> TextFile(f.content \o text),
                                         raised |-> FALSE]
          [] outcome = "ok"          -> [file |-> TextFile(f.content \o text),
                                         raised |-> FALSE]

\* _save_credits without its try/except
save_credits_raising(f, used, outcome, written) ==
    LET text == SubSeq(IntToStr(used), 1, written)
    IN  CASE outcome = "open_fails"  -> [file |-> f, raised |-> TRUE]
          [] outcome = "opened"      -> [file |-> TextFile(<<>>), raised |-> FALSE]
          [] outcome = "write_fails" -> [file |-> TextFile(Overwrite(f.content, text)),
                                         raised |-> TRUE]
          [] outcome = "ok"          -> [file |-> TextFile(Overwrite(f.content, text)),
                                         raised |-> FALSE]

\* _save_credits, stage by stage: f is the file the stage finds, the result
\* the file it leaves. open(.., 'w') creates or truncates the file before
\* anything is written; the write puts the first written characters of
\* str(used) at the beginning of the file; no exception leaves the method
save_credits(f, used, outcome, written) ==
    LET text == SubSeq(IntToStr(used), 1, written)
    IN  CASE outcome = "open_fails"  -> [file |-> f, raised |-> FALSE]
          [] outcome = "opened"      -> [file |-> TextFile(<<>>), raised |-> FALSE]
          [] outcome = "write_fails" -> [file |-> TextFile(Overwrite(f.content, text)),
                                         raised |-> FALSE]
          [] outcome = "ok"          -> [file |-> TextFile(Overwrite(f.content, text)),
                                         raised |-> FALSE]

\* can_continue that forgets the amount asked for
can_continue_ignores_needed(used, needed) == used <= MAX_CREDITS

\* can_continue with < for <=
can_continue_strict(used, needed) == (used + needed) < MAX_CREDITS

\* can_continue: True when the amount still fits under the ceiling
can_continue(used, needed) == (used + needed) <= MAX_CREDITS

\* get_remaining with its operands the other way round
get_remaining_swapped(used) == used - MAX_CREDITS

\* get_remaining: what is left under the ceiling
get_remaining(used) == MAX_CREDITS - used

----------------------------------------------------------------------------
(* State *)

VARIABLES
    file,          \* the counter file
    pc,            \* per process: position in main(), "idle" when no process
    env_ok,        \* per process: the three required environment variables are set
    BATCH_SIZE,    \* per process: the configured batch size
    credits_used,  \* per process: tracker.credits_used
    loaded,        \* per process: what _load_credits returned to __init__
    providers,     \* per process: len(providers)
    i,             \* per process: the loop index of enumerate(providers, 1)
    stats,         \* per process: the stats dictionary of main()
    exit_status,   \* per process: exit status once pc = "done"
    gate,          \* per process: the latest can_continue call and its result
                   \*          (in the client: since the latest add_credits)
    remaining,     \* per process: the latest get_remaining call and its result
                   \*          (in the client: since the latest add_credits)
    sent,          \* per process: search requests sent by the scrape under way
    pending,       \* per process: the total handed to f.write by the
                   \*          _save_credits under way, not yet in the file
    runs,          \* history: invocations started so far
    base,          \* history: what the counter file held at the beginning
    consumed,      \* history: credits of all scrapes performed
    added,         \* history: sum of all amounts passed to add_credits
    last_total,    \* history: credits_used after the latest add_credits
    last_save,     \* history: how far the latest _save_credits has got
    save_failed,   \* history: some _save_credits has failed to open or to write
    faults_left,   \* the failures of a save the environment still has in store
    last_load,     \* history: the latest _load_credits and whether an add followed
    overlapped,    \* history: a process was started while another was running
    undercharged,  \* history: a scrape that sent more requests than
                   \*          CREDITS_PER_SCRAPE was booked at CREDITS_PER_SCRAPE
    unchecked,     \* history, per process: some add_credits(a) of the tracker
                   \*          did not come right after can_continue(a)
                   \*          returned True
    table,         \* the providers table: ids of the rows whose filter field
                   \*          is still null
    job,           \* the batch script being run in order: configuration,
                   \*          position in main(), providers, index, stats
    audit          \* history of the batch runs: the rows lacking the field
                   \*          before batch 1, the batches whose fetch was
                   \*          answered, the batches that fetched each row, the
                   \*          providers visited by the run under way

vars == <<file, pc, env_ok, BATCH_SIZE, credits_used, loaded, providers, i, stats,
          exit_status, gate, remaining, sent, runs, base, consumed, added,
          last_total, last_save, save_failed, faults_left, last_load, overlapped,
          undercharged, pending, unchecked, table, job, audit>>

\* the state of the credit gate and of the processes that use it
gate_vars == <<file, pc, env_ok, BATCH_SIZE, credits_used, loaded, providers, i,
               stats, exit_status, gate, remaining, sent, runs, base, consumed,
               added, last_total, last_save, save_failed, faults_left, last_load,
               overlapped, undercharged, pending, unchecked>>

\* the state of the batch scripts run one after the other on the table
batch_vars == <<table, job, audit>>

locals == <<env_ok, BATCH_SIZE, credits_used, loaded, providers, i, stats,
            exit_status, gate, remaining, sent>>

history == <<base, consumed, added, last_total, last_save, save_failed,
             faults_left, undercharged>>

NoStats == [total |-> 0, success |-> 0, errors |-> 0, credits_used |-> 0]

NoGate == [at |-> "none", iter |-> 0, needed |-> 0, used |-> 0, result |-> FALSE]

NoRemaining == [called |-> FALSE, used |-> 0, value |-> 0]

NoLoad == [done |-> FALSE, clean |-> FALSE, value |-> 0]

\* counter files the first invocation may find
InitFiles ==
    { AbsentFile, LockedFile,
      TextFile(<<>>),
      TextFile(<<"\n">>),
      TextFile(<<"a", "b", "c">>),
      TextFile(<<"1", "2", ".", "5">>),
      TextFile(<<"0">>),
      TextFile(<<"-", "7">>),
      TextFile(<<"2", "_", "8", "9", "5">>),
      \* form feed, no-break space, 2896 in digits of two scripts, Ogham
      \* space mark, \r\n
      TextFile(<<"\f", " ", "۲", "8", "۹", "۶", " ", "\r", "\n">>),
      TextFile(<<"2", "8", "9", "7">>),
      TextFile(<<"+", "2", "8", "9", "9">>),
      TextFile(<<"2", "9", "0", "0">>),
      TextFile(<<"3", "0", "0", "0">>) }

\* no batch script configured
NoJob == [script |-> "none", pc |-> "idle"]

NoAudit == [before |-> {}]

GateInit ==
    /\ file \in InitFiles
    /\ pc = [p \in Procs |-> "idle"]
    /\ env_ok = [p \in Procs |-> FALSE]
    /\ BATCH_SIZE = [p \in Procs |-> 0]
    /\ credits_used = [p \in Procs |-> 0]
    /\ loaded = [p \in Procs |-> 0]
    /\ providers = [p \in Procs |-> 0]
    /\ i = [p \in Procs |-> 0]
    /\ stats = [p \in Procs |-> NoStats]
    /\ exit_status = [p \in Procs |-> 0]
    /\ gate = [p \in Procs |-> NoGate]
    /\ remaining = [p \in Procs |-> NoRemaining]
    /\ sent = [p \in Procs |-> 0]
    /\ pending = [p \in Procs |-> 0]
    /\ unchecked = [p \in Procs |-> FALSE]
    /\ runs = 0
    /\ base = load_credits(file).value
    /\ consumed = 0
    /\ added = 0
    /\ last_total = base
    /\ last_save = "none"
    /\ save_failed = FALSE
    /\ last_load = NoLoad
    /\ overlapped = FALSE
    /\ undercharged = FALSE

Init ==
    /\ GateInit
    /\ faults_left = MaxFaults
    /\ table = {}
    /\ job = NoJob
    /\ audit = NoAudit

\* one batch process at a time (spec section 5)
SingleWriter(p) == \A q \in Procs \ {p} : pc[q] = "idle"

\* process slots are interchangeable: a new process takes the lowest free one
LowestFree(p) == \A q \in Procs : q < p => pc[q] # "idle"

----------------------------------------------------------------------------
(* CreditTracker methods as state changes *)

\* CreditTracker() with the counter file opened in mode 'w+'
NewTracker_truncating(p) ==
    /\ credits_used' = [credits_used EXCEPT ![p] = 0]
    /\ loaded' = [loaded EXCEPT ![p] = 0]
    /\ last_load' = [done |-> TRUE, clean |-> TRUE, value |-> 0]
    /\ file' = IF file.exists /\ ~file.openable THEN file ELSE TextFile(<<>>)

\* CreditTracker(): __init__ loads the counter; the file is only read
NewTracker(p) ==
    LET r == load_credits(file)
    IN  /\ credits_used' = [credits_used EXCEPT ![p] = r.value]
        /\ loaded' = [loaded EXCEPT ![p] = r.value]
        /\ last_load' = [done |-> TRUE, clean |-> TRUE, value |-> r.value]
        /\ file' = file

\* add_credits that saves before it increments
add_credits_save_first(p, amount, outcome) ==
    LET used == credits_used[p] + amount
    IN  /\ outcome \in OpenOutcomesOf(file)
        /\ Fault(file, outcome) => faults_left > 0
        /\ credits_used' = [credits_used EXCEPT ![p] = used]
        /\ file' = save_credits(file, credits_used[p], outcome, 0).file
        /\ pending' = [pending EXCEPT
              ![p] = IF outcome = "opened" THEN credits_used[p] ELSE 0]
        /\ added' = added + amount
        /\ last_total' = used
        /\ last_save' = outcome
        /\ save_failed' = (save_failed \/ outcome = "open_fails")
        /\ last_load' = [last_load EXCEPT !.clean = FALSE]
        /\ faults_left' = IF Fault(file, outcome) THEN faults_left - 1
                          ELSE faults_left

\* add_credits that writes the amount instead of the total
add_credits_saves_amount(p, amount, outcome) ==
    LET used == credits_used[p] + amount
    IN  /\ outcome \in OpenOutcomesOf(file)
        /\ Fault(file, outcome) => faults_left > 0
        /\ credits_used' = [credits_used EXCEPT ![p] = used]
        /\ file' = save_credits(file, amount, outcome, 0).file
        /\ pending' = [pending EXCEPT
              ![p] = IF outcome = "opened" THEN amount ELSE 0]
        /\ added' = added + amount
        /\ last_total' = used
        /\ last_save' = outcome
        /\ save_failed' = (save_failed \/ outcome = "open_fails")
        /\ last_load' = [last_load EXCEPT !.clean = FALSE]
        /\ faults_left' = IF Fault(file, outcome) THEN faults_left - 1
                          ELSE faults_left

\* tracker.add_credits(amount) by process p, up to the write inside
\* _save_credits: the total is increased in memory, the counter file is
\* opened, which empties it, and str(credits_used) is handed to f.write,
\* which keeps it in the writer's buffer; when the open fails the call is over
add_credits(p, amount, outcome) ==
    LET used == credits_used[p] + amount
    IN  /\ outcome \in OpenOutcomesOf(file)
        /\ Fault(file, outcome) => faults_left > 0
        /\ credits_used' = [credits_used EXCEPT ![p] = used]
        /\ file' = save_credits(file, used, outcome, 0).file
        /\ pending' = [pending EXCEPT
              ![p] = IF outcome = "opened" THEN used ELSE 0]
        /\ added' = added + amount
        /\ last_total' = used
        /\ last_save' = outcome
        /\ save_failed' = (save_failed \/ outcome = "open_fails")
        /\ last_load' = [last_load EXCEPT !.clean = FALSE]
        /\ faults_left' = IF Fault(file, outcome) THEN faults_left - 1
                          ELSE faults_left

\* the end of the with block of _save_credits: the file is closed, which
\* takes the text from the buffer to the file, in full or up to the character
\* at which the write fails
close_credits(p, outcome, written) ==
    /\ outcome \in CloseOutcomes
    /\ written \in Written(pending[p], outcome)
    /\ file' = save_credits(file, pending[p], outcome, written).file
    /\ pending' = [pending EXCEPT ![p] = 0]
    /\ last_save' = outcome
    /\ save_failed' = (save_failed \/ outcome = "write_fails")
    /\ Fault(file, outcome) => faults_left > 0
    /\ faults_left' = IF Fault(file, outcome) THEN faults_left - 1
                      ELSE faults_left

\* whether _save_credits ends with an exception at that stage
save_raises(used, outcome) ==
    save_credits(file, used, outcome, 0).raised

\* the record of tracker.can_continue(needed) called by p at place at
GateCall(p, at, needed) ==
    [at |-> at, iter |-> i[p], needed |-> needed, used |-> credits_used[p],
     result |-> can_continue(credits_used[p], needed)]

\* the record of tracker.get_remaining() on a tracker whose credits_used is used
RemainingCall(used) ==
    [called |-> TRUE, used |-> used, value |-> get_remaining(used)]

----------------------------------------------------------------------------
(* main() of scrape_firecrawl_ratings.py *)

\* the three search queries of scrape_business_ratings
SEARCH_QUERIES == 3

\* process start up to the construction of the tracker and its status line,
\* with the BATCH_SIZE of the environment at most most
LaunchWith(p, most) ==
    /\ pc[p] = "idle"
    /\ runs < MaxRuns
    /\ runs' = runs + 1
    /\ overlapped' = (overlapped \/ ~SingleWriter(p))
    /\ \E ok \in BOOLEAN, bs \in 1..most :
          /\ env_ok' = [env_ok EXCEPT ![p] = ok]
          /\ BATCH_SIZE' = [BATCH_SIZE EXCEPT ![p] = bs]
          /\ IF ~ok \/ load_credits(file).raised
             THEN /\ pc' = [pc EXCEPT ![p] = "done"]
                  /\ exit_status' = [exit_status EXCEPT ![p] = 1]
                  /\ UNCHANGED <<file, credits_used, loaded, last_load, remaining>>
             ELSE /\ pc' = [pc EXCEPT ![p] = "pregate"]
                  /\ NewTracker(p)
                  /\ remaining' = [remaining EXCEPT
                        ![p] = RemainingCall(credits_used'[p])]
                  /\ UNCHANGED exit_status
    /\ UNCHANGED <<providers, i, stats, gate, sent, history>>
    /\ UNCHANGED <<pending, unchecked>>
    /\ UNCHANGED batch_vars

\* process start of a batch run
Launch(p) == LaunchWith(p, MaxBatch)

\* a process started while no other process is running
Start(p) ==
    /\ SingleWriter(p)
    /\ LowestFree(p)
    /\ Launch(p)

\* the batch check that estimates one credit per provider
PreBatchCheck_underestimate(p) ==
    /\ pc[p] = "pregate"
    /\ LET g == GateCall(p, "batch", BATCH_SIZE[p])
       IN  /\ gate' = [gate EXCEPT ![p] = g]
           /\ IF ~g.result
              THEN /\ pc' = [pc EXCEPT ![p] = "done"]
                   /\ exit_status' = [exit_status EXCEPT ![p] = 0]
                   /\ remaining' = [remaining EXCEPT
                         ![p] = RemainingCall(credits_used[p])]
              ELSE /\ pc' = [pc EXCEPT ![p] = "fetch"]
                   /\ UNCHANGED <<exit_status, remaining>>
    /\ UNCHANGED <<file, env_ok, BATCH_SIZE, credits_used, loaded, providers, i,
                   stats, sent, runs, history, last_load, overlapped>>
    /\ UNCHANGED <<pending, unchecked>>
    /\ UNCHANGED batch_vars

\* the batch check whose result is not acted upon
PreBatchCheck_nocheck(p) ==
    /\ pc[p] = "pregate"
    /\ gate' = [gate EXCEPT
          ![p] = GateCall(p, "batch", BATCH_SIZE[p] * CREDITS_PER_SCRAPE)]
    /\ pc' = [pc EXCEPT ![p] = "fetch"]
    /\ UNCHANGED <<file, env_ok, BATCH_SIZE, credits_used, loaded, providers, i,
                   stats, exit_status, remaining, sent, runs, history, last_load,
                   overlapped>>
    /\ UNCHANGED <<pending, unchecked>>
    /\ UNCHANGED batch_vars

\* the check of the whole batch's estimated credits
PreBatchCheck(p) ==
    /\ pc[p] = "pregate"
    /\ LET g == GateCall(p, "batch", BATCH_SIZE[p] * CREDITS_PER_SCRAPE)
       IN  /\ gate' = [gate EXCEPT ![p] = g]
           /\ IF ~g.result
              THEN /\ pc' = [pc EXCEPT ![p] = "done"]
                   /\ exit_status' = [exit_status EXCEPT ![p] = 0]
                   /\ remaining' = [remaining EXCEPT
                         ![p] = RemainingCall(credits_used[p])]
              ELSE /\ pc' = [pc EXCEPT ![p] = "fetch"]
                   /\ UNCHANGED <<exit_status, remaining>>
    /\ UNCHANGED <<file, env_ok, BATCH_SIZE, credits_used, loaded, providers, i,
                   stats, sent, runs, history, last_load, overlapped>>
    /\ UNCHANGED <<pending, unchecked>>
    /\ UNCHANGED batch_vars

\* get_batch_providers: the backend answers with n rows, at most most of
\* them ([] on any error)
FetchRows(p, most) ==
    /\ pc[p] = "fetch"
    /\ \E n \in 0..most :
          IF n = 0
          THEN /\ pc' = [pc EXCEPT ![p] = "done"]
               /\ exit_status' = [exit_status EXCEPT ![p] = 0]
               /\ UNCHANGED <<providers, i, stats>>
          ELSE /\ pc' = [pc EXCEPT ![p] = "gate"]
               /\ providers' = [providers EXCEPT ![p] = n]
               /\ i' = [i EXCEPT ![p] = 1]
               /\ stats' = [stats EXCEPT ![p] = [NoStats EXCEPT !.total = n]]
               /\ UNCHANGED exit_status
    /\ UNCHANGED <<file, env_ok, BATCH_SIZE, credits_used, loaded, gate, remaining,
                   sent, runs, history, last_load, overlapped>>
    /\ UNCHANGED <<pending, unchecked>>
    /\ UNCHANGED batch_vars

\* the fetch of a batch run
FetchProviders(p) == FetchRows(p, MaxProviders)

\* where the loop goes after the body of iteration i[p]
NextIteration(p) ==
    /\ i' = [i EXCEPT ![p] = i[p] + 1]
    /\ pc' = [pc EXCEPT ![p] = IF i[p] + 1 > providers[p] THEN "summary"
                                ELSE "gate"]

\* the loop check without its break
LoopCheck_nobreak(p) ==
    /\ pc[p] = "gate"
    /\ gate' = [gate EXCEPT ![p] = GateCall(p, "loop", CREDITS_PER_SCRAPE)]
    /\ pc' = [pc EXCEPT ![p] = "scrape"]
    /\ UNCHANGED <<file, env_ok, BATCH_SIZE, credits_used, loaded, providers, i,
                   stats, exit_status, remaining, sent, runs, history, last_load,
                   overlapped>>
    /\ UNCHANGED <<pending, unchecked>>
    /\ UNCHANGED batch_vars

\* the credit check at the top of the loop body
LoopCheck(p) ==
    /\ pc[p] = "gate"
    /\ LET g == GateCall(p, "loop", CREDITS_PER_SCRAPE)
       IN  /\ gate' = [gate EXCEPT ![p] = g]
           /\ pc' = [pc EXCEPT ![p] = IF ~g.result THEN "summary" ELSE "scrape"]
           /\ remaining' = IF ~g.result
                           THEN [remaining EXCEPT
                                   ![p] = RemainingCall(credits_used[p])]
                           ELSE remaining
    /\ UNCHANGED <<file, env_ok, BATCH_SIZE, credits_used, loaded, providers, i,
                   stats, exit_status, sent, runs, history, last_load, overlapped>>
    /\ UNCHANGED <<pending, unchecked>>
    /\ UNCHANGED batch_vars

\* scraper.scrape_business_ratings: the Firecrawl searches of one provider,
\* of which k are sent (a request that raises before it is sent is skipped)
Scrape(p) ==
    /\ pc[p] = "scrape"
    /\ consumed' = consumed + CREDITS_PER_SCRAPE
    /\ \E k \in 0..SEARCH_QUERIES : sent' = [sent EXCEPT ![p] = k]
    /\ pc' = [pc EXCEPT ![p] = "update"]
    /\ UNCHANGED <<file, env_ok, BATCH_SIZE, credits_used, loaded, providers, i,
                   stats, exit_status, gate, remaining, runs, base, added,
                   last_total, last_save, save_failed, faults_left, last_load,
                   overlapped, undercharged>>
    /\ UNCHANGED <<pending, unchecked>>
    /\ UNCHANGED batch_vars

\* what supabase.update_provider does: True, False, or an exception on the
\* way to it
UpdateOutcomes == {"ok", "failed", "exception"}

\* the loop body charging one credit per search request sent
UpdateProvider_per_request(p) ==
    /\ pc[p] = "update"
    /\ \E u \in UpdateOutcomes :
          IF u = "ok"
          THEN \E o \in OpenOutcomes :
                  /\ add_credits(p, sent[p], o)
                  /\ undercharged' = undercharged
                  /\ stats' = [stats EXCEPT
                        ![p].success = @ + 1,
                        ![p].credits_used = @ + sent[p],
                        ![p].errors = IF save_raises(credits_used'[p], o)
                                      THEN @ + 1 ELSE @]
                  /\ IF o = "opened"
                     THEN /\ pc' = [pc EXCEPT ![p] = "save"]
                          /\ UNCHANGED i
                     ELSE NextIteration(p)
          ELSE /\ stats' = [stats EXCEPT ![p].errors = @ + 1]
               /\ NextIteration(p)
               /\ UNCHANGED <<file, credits_used, added, last_total, last_save,
                              save_failed, faults_left, last_load, undercharged,
                              pending>>
    /\ sent' = [sent EXCEPT ![p] = 0]
    /\ UNCHANGED <<env_ok, BATCH_SIZE, loaded, providers, exit_status, gate,
                   remaining, runs, base, consumed, overlapped, unchecked>>
    /\ UNCHANGED batch_vars

\* the loop body whose except clause does not count the error
UpdateProvider_uncounted_exception(p) ==
    /\ pc[p] = "update"
    /\ \E u \in UpdateOutcomes :
          IF u = "ok"
          THEN \E o \in OpenOutcomes :
                  /\ add_credits(p, CREDITS_PER_SCRAPE, o)
                  /\ undercharged' = (undercharged \/ sent[p] > CREDITS_PER_SCRAPE)
                  /\ stats' = [stats EXCEPT
                        ![p].success = @ + 1,
                        ![p].credits_used = @ + CREDITS_PER_SCRAPE,
                        ![p].errors = @]
                  /\ IF o = "opened"
                     THEN /\ pc' = [pc EXCEPT ![p] = "save"]
                          /\ UNCHANGED i
                     ELSE NextIteration(p)
          ELSE /\ stats' = [stats EXCEPT ![p].errors = IF u = "exception" THEN @ ELSE @ + 1]
               /\ NextIteration(p)
               /\ UNCHANGED <<file, credits_used, added, last_total, last_save,
                              save_failed, faults_left, last_load, undercharged,
                              pending>>
    /\ sent' = [sent EXCEPT ![p] = 0]
    /\ UNCHANGED <<env_ok, BATCH_SIZE, loaded, providers, exit_status, gate,
                   remaining, runs, base, consumed, overlapped, unchecked>>
    /\ UNCHANGED batch_vars

\* the rest of the loop body up to the write of the counter: database update,
\* bookkeeping, add_credits; an exception inside the try block is counted as
\* an error
UpdateProvider(p) ==
    /\ pc[p] = "update"
    /\ \E u \in UpdateOutcomes :
          IF u = "ok"
          THEN \E o \in OpenOutcomes :
                  /\ add_credits(p, CREDITS_PER_SCRAPE, o)
                  /\ undercharged' = (undercharged \/ sent[p] > CREDITS_PER_SCRAPE)
                  /\ stats' = [stats EXCEPT
                        ![p].success = @ + 1,
                        ![p].credits_used = @ + CREDITS_PER_SCRAPE,
                        ![p].errors = IF save_raises(credits_used'[p], o)
                                      THEN @ + 1 ELSE @]
                  /\ IF o = "opened"
                     THEN /\ pc' = [pc EXCEPT ![p] = "save"]
                          /\ UNCHANGED i
                     ELSE NextIteration(p)
          ELSE /\ stats' = [stats EXCEPT ![p].errors = @ + 1]
               /\ NextIteration(p)
               /\ UNCHANGED <<file, credits_used, added, last_total, last_save,
                              save_failed, faults_left, last_load, undercharged,
                              pending>>
    /\ sent' = [sent EXCEPT ![p] = 0]
    /\ UNCHANGED <<env_ok, BATCH_SIZE, loaded, providers, exit_status, gate,
                   remaining, runs, base, consumed, overlapped, unchecked>>
    /\ UNCHANGED batch_vars

\* the counter file is closed inside add_credits; the loop body ends with
\* its sleep
SaveCredits(p) ==
    /\ pc[p] = "save"
    /\ \E o \in CloseOutcomes, w \in 0..Len(IntToStr(pending[p])) :
          /\ close_credits(p, o, w)
          /\ stats' = [stats EXCEPT
                ![p].errors = IF save_raises(pending[p], o) THEN @ + 1 ELSE @]
    /\ NextIteration(p)
    /\ UNCHANGED <<env_ok, BATCH_SIZE, credits_used, loaded, providers,
                   exit_status, gate, remaining, sent, runs, base, consumed,
                   added, last_total, last_load, overlapped, undercharged,
                   unchecked>>
    /\ UNCHANGED batch_vars

\* a run that reports the credit stop as a failure (sys.exit(1))
Summary_exit_error(p) ==
    /\ pc[p] = "summary"
    /\ pc' = [pc EXCEPT ![p] = "done"]
    /\ exit_status' = [exit_status EXCEPT
          ![p] = IF gate[p].at = "loop" /\ ~gate[p].result THEN 1 ELSE 0]
    /\ remaining' = [remaining EXCEPT ![p] = RemainingCall(credits_used[p])]
    /\ UNCHANGED <<file, env_ok, BATCH_SIZE, credits_used, loaded, providers, i,
                   stats, gate, sent, runs, history, last_load, overlapped>>
    /\ UNCHANGED <<pending, unchecked>>
    /\ UNCHANGED batch_vars

\* the final summary with its status line; main returns
Summary(p) ==
    /\ pc[p] = "summary"
    /\ pc' = [pc EXCEPT ![p] = "done"]
    /\ exit_status' = [exit_status EXCEPT ![p] = 0]
    /\ remaining' = [remaining EXCEPT ![p] = RemainingCall(credits_used[p])]
    /\ UNCHANGED <<file, env_ok, BATCH_SIZE, credits_used, loaded, providers, i,
                   stats, gate, sent, runs, history, last_load, overlapped>>
    /\ UNCHANGED <<pending, unchecked>>
    /\ UNCHANGED batch_vars

\* the process is gone, and its memory with it
Exit(p) ==
    /\ pc[p] \in {"done", "client"}
    /\ pc' = [pc EXCEPT ![p] = "idle"]
    /\ env_ok' = [env_ok EXCEPT ![p] = FALSE]
    /\ BATCH_SIZE' = [BATCH_SIZE EXCEPT ![p] = 0]
    /\ credits_used' = [credits_used EXCEPT ![p] = 0]
    /\ loaded' = [loaded EXCEPT ![p] = 0]
    /\ providers' = [providers EXCEPT ![p] = 0]
    /\ i' = [i EXCEPT ![p] = 0]
    /\ stats' = [stats EXCEPT ![p] = NoStats]
    /\ exit_status' = [exit_status EXCEPT ![p] = 0]
    /\ gate' = [gate EXCEPT ![p] = NoGate]
    /\ remaining' = [remaining EXCEPT ![p] = NoRemaining]
    /\ sent' = [sent EXCEPT ![p] = 0]
    /\ pending' = [pending EXCEPT ![p] = 0]
    /\ unchecked' = [unchecked EXCEPT ![p] = FALSE]
    /\ UNCHANGED <<file, runs, history, last_load, overlapped>>
    /\ UNCHANGED batch_vars

Next ==
    \E p \in Procs :
        \/ Start(p)
        \/ PreBatchCheck(p)
        \/ FetchProviders(p)
        \/ LoopCheck(p)
        \/ Scrape(p)
        \/ UpdateProvider(p)
        \/ SaveCredits(p)
        \/ Summary(p)
        \/ Exit(p)

Spec == Init /\ [][Next]_vars

----------------------------------------------------------------------------
(* Batch processes started with no regard to each other *)

\* at most one other process is running: the overlap of two batch runs
TwoWriters(p) == Cardinality({q \in Procs \ {p} : pc[q] # "idle"}) <= 1

\* a process started while at most one other is running
ConcStart(p) ==
    /\ TwoWriters(p)
    /\ LowestFree(p)
    /\ LaunchWith(p, MaxConcBatch)

\* the fetch of one of the overlapping runs
ConcFetch(p) == FetchRows(p, MaxConcBatch)

ConcNext ==
    \E p \in Procs :
        \/ ConcStart(p)
        \/ PreBatchCheck(p)
        \/ ConcFetch(p)
        \/ LoopCheck(p)
        \/ Scrape(p)
        \/ UpdateProvider(p)
        \/ SaveCredits(p)
        \/ Summary(p)
        \/ Exit(p)

\* the counter file the overlapping runs start from: one scrape below the
\* last one that fits under the ceiling
ConcFiles == { TextFile(<<"2", "8", "9", "7">>) }

ConcInit ==
    /\ GateInit
    /\ faults_left = MaxConcFaults
    /\ file \in ConcFiles
    /\ table = {}
    /\ job = NoJob
    /\ audit = NoAudit

ConcSpec == ConcInit /\ [][ConcNext]_vars

----------------------------------------------------------------------------
(* The tracker driven by an arbitrary client *)

Amounts == 0..MaxAmount

\* tracker = CreditTracker()
ClientNew(p) ==
    /\ pc[p] = "idle"
    /\ SingleWriter(p)
    /\ LowestFree(p)
    /\ runs < MaxRuns
    /\ runs' = runs + 1
    /\ IF load_credits(file).raised
       THEN /\ pc' = [pc EXCEPT ![p] = "done"]
            /\ exit_status' = [exit_status EXCEPT ![p] = 1]
            /\ UNCHANGED <<file, credits_used, loaded, last_load>>
       ELSE /\ pc' = [pc EXCEPT ![p] = "client"]
            /\ NewTracker(p)
            /\ UNCHANGED exit_status
    /\ UNCHANGED <<env_ok, BATCH_SIZE, providers, i, stats, gate, remaining, sent,
                   history, overlapped>>
    /\ UNCHANGED <<pending, unchecked>>
    /\ UNCHANGED batch_vars

\* can_continue that books the amount it grants
ClientCheck_reserving(p) ==
    /\ pc[p] = "client"
    /\ \E a \in Amounts :
          /\ gate' = [gate EXCEPT ![p] = GateCall(p, "client", a)]
          /\ credits_used' = [credits_used EXCEPT
                ![p] = IF can_continue(@, a) THEN @ + a ELSE @]
    /\ UNCHANGED <<file, pc, env_ok, BATCH_SIZE, loaded, providers,
                   i, stats, exit_status, remaining, sent, runs, history,
                   last_load, overlapped>>
    /\ UNCHANGED <<pending, unchecked>>
    /\ UNCHANGED batch_vars

\* tracker.can_continue(a)
ClientCheck(p) ==
    /\ pc[p] = "client"
    /\ \E a \in Amounts : gate' = [gate EXCEPT ![p] = GateCall(p, "client", a)]
    /\ UNCHANGED <<file, pc, env_ok, BATCH_SIZE, credits_used, loaded, providers,
                   i, stats, exit_status, remaining, sent, runs, history,
                   last_load, overlapped>>
    /\ UNCHANGED <<pending, unchecked>>
    /\ UNCHANGED batch_vars

\* tracker.get_remaining()
ClientRemaining(p) ==
    /\ pc[p] = "client"
    /\ remaining' = [remaining EXCEPT ![p] = RemainingCall(credits_used[p])]
    /\ UNCHANGED <<file, pc, env_ok, BATCH_SIZE, credits_used, loaded, providers,
                   i, stats, exit_status, gate, sent, runs, history, last_load,
                   overlapped>>
    /\ UNCHANGED <<pending, unchecked>>
    /\ UNCHANGED batch_vars

\* tracker.add_credits(a) up to the write of the counter, whatever was checked
\* before
ClientAdd(p) ==
    /\ pc[p] = "client"
    /\ \E a \in Amounts, o \in OpenOutcomes :
          /\ added + a <= MaxAdded
          /\ add_credits(p, a, o)
          /\ unchecked' = [unchecked EXCEPT
                ![p] = @ \/ ~(/\ gate[p].at = "client"
                              /\ gate[p].needed = a
                              /\ gate[p].result)]
          /\ IF o = "opened"
             THEN /\ pc' = [pc EXCEPT ![p] = "client_save"]
                  /\ UNCHANGED exit_status
             ELSE IF save_raises(credits_used'[p], o)
                  THEN /\ pc' = [pc EXCEPT ![p] = "done"]
                       /\ exit_status' = [exit_status EXCEPT ![p] = 1]
                  ELSE UNCHANGED <<pc, exit_status>>
    /\ gate' = [gate EXCEPT ![p] = NoGate]
    /\ remaining' = [remaining EXCEPT ![p] = NoRemaining]
    /\ UNCHANGED <<env_ok, BATCH_SIZE, loaded, providers, i, stats,
                   sent, runs, base, consumed, overlapped, undercharged>>
    /\ UNCHANGED batch_vars

\* the counter file is closed inside add_credits, which returns
ClientSave(p) ==
    /\ pc[p] = "client_save"
    /\ \E o \in CloseOutcomes, w \in 0..Len(IntToStr(pending[p])) :
          /\ close_credits(p, o, w)
          /\ IF save_raises(pending[p], o)
             THEN /\ pc' = [pc EXCEPT ![p] = "done"]
                  /\ exit_status' = [exit_status EXCEPT ![p] = 1]
             ELSE /\ pc' = [pc EXCEPT ![p] = "client"]
                  /\ UNCHANGED exit_status
    /\ UNCHANGED <<env_ok, BATCH_SIZE, credits_used, loaded, providers, i, stats,
                   gate, remaining, sent, runs, base, consumed, added,
                   last_total, last_load, overlapped, undercharged, unchecked>>
    /\ UNCHANGED batch_vars

ClientNext ==
    \E p \in Procs :
        \/ ClientNew(p)
        \/ ClientCheck(p)
        \/ ClientRemaining(p)
        \/ ClientAdd(p)
        \/ ClientSave(p)
        \/ Exit(p)

\* the counter files the first tracker may find: none, one that cannot be
\* opened, one that holds no number, one with white space around a number
\* written in the digits of two scripts, and files three and one below, at and
\* above the ceiling
TrackerFiles ==
    { AbsentFile, LockedFile,
      TextFile(<<"a", "b", "c">>),
      TextFile(<<"\f", " ", "۲", "8", "۹", "۶", " ", "\r", "\n">>),
      TextFile(<<"2", "8", "9", "7">>),
      TextFile(<<"+", "2", "8", "9", "9">>),
      TextFile(<<"2", "9", "0", "0">>),
      TextFile(<<"3", "0", "0", "0">>) }

TrackerInit ==
    /\ Init
    /\ file \in TrackerFiles

TrackerSpec == TrackerInit /\ [][ClientNext]_vars

----------------------------------------------------------------------------
(* The four batch scripts, run batch after batch on the providers table *)

\* scrape_homestars.py, scrape_esa_licenses.py, scrape_multi_source_ratings.py
\* and scrape_firecrawl_ratings.py
Scripts == {"homestars", "esa", "multi", "firecrawl"}

\* ids of the rows of the providers table
Rows == 1..MaxRows

Min(a, b) == IF a <= b THEN a ELSE b

RECURSIVE Ascending(_)
\* the ids of S in the order of 'order': 'id.asc'
Ascending(S) ==
    IF S = {} THEN <<>>
    ELSE LET least == CHOOSE r \in S : \A q \in S : r <= q
         IN  <<least>> \o Ascending(S \ {least})

\* the page of 'limit' rows at 'offset' among the rows of S
Page(S, offset, limit) ==
    SubSeq(Ascending(S), offset + 1, Min(offset + limit, Cardinality(S)))

\* the elements of a sequence
Range(s) == {s[n] : n \in 1..Len(s)}

\* get_batch_providers answered with status 200: limit batch_size at offset
\* (batch_number - 1) * batch_size over the rows whose field is null
get_batch_providers(missing, batch_number, batch_size) ==
    Page(missing, (batch_number - 1) * batch_size, batch_size)

\* the stats dictionary each script starts its loop with
NewStats(script, n) ==
    CASE script = "homestars" ->
            [total |-> n, found |-> 0, not_found |-> 0, errors |-> 0]
      [] script = "esa" ->
            [total |-> n, licensed |-> 0, not_found |-> 0, active |-> 0,
             inactive |-> 0, errors |-> 0]
      [] script = "multi" ->
            [total |-> n, success |-> 0, errors |-> 0]
      [] script = "firecrawl" ->
            [total |-> n, success |-> 0, errors |-> 0, credits_used |-> 0]

\* no update_provider call made yet
NoUpdate == [made |-> FALSE]

\* the tables the first batch may find: n rows, none with the field set
Tables == {1..n : n \in 0..MaxRows}

\* the counter files the Firecrawl batches start from
BatchFiles == {AbsentFile, TextFile(<<"2", "8", "9", "7">>)}

\* only the Firecrawl script has a counter file
BatchInit ==
    /\ GateInit
    /\ faults_left = MaxFaults
    /\ table \in Tables
    /\ \E s \in Scripts, bs \in 1..MaxBatch :
          job = [script |-> s, pc |-> "idle", BATCH_SIZE |-> bs,
                 BATCH_NUMBER |-> 0, providers |-> <<>>, i |-> 0,
                 stats |-> NewStats(s, 0), credits_used |-> 0,
                 update |-> NoUpdate, exit_status |-> 0]
    /\ file \in IF job.script = "firecrawl" THEN BatchFiles ELSE {AbsentFile}
    /\ audit = [before |-> table,
                fetched_by |-> [r \in Rows |-> {}],
                pages |-> {},
                visited |-> <<>>]

\* the job has left main(): sys.exit(status), return, or an uncaught exception
Finished(j, status) == [j EXCEPT !.pc = "done", !.exit_status = status]

\* the variables of the gate no batch run changes: a batch run is not one
\* of the processes of Procs
batch_gate == <<pc, locals, base, overlapped, pending, unchecked>>

\* what the history of the gate records of add_credits and _save_credits
save_history == <<added, last_total, last_save, save_failed>>

\* what the history of the gate records of the scrapes
scrape_history == <<consumed, undercharged>>

\* main() up to the fetch: the next batch number, the environment check and,
\* in the Firecrawl script, the tracker, which loads the counter, and the
\* check of the whole batch
BatchStart ==
    /\ job.pc = "idle"
    /\ job.script \in Scripts
    /\ job.BATCH_NUMBER < MaxBatches
    /\ \E ok \in BOOLEAN :
          LET j == [job EXCEPT !.BATCH_NUMBER = @ + 1, !.providers = <<>>,
                               !.i = 0, !.stats = NewStats(job.script, 0),
                               !.update = NoUpdate, !.exit_status = 0,
                               !.credits_used = 0]
              used == load_credits(file).value
          IN  /\ job' =
                   IF ~ok THEN Finished(j, 1)
                   ELSE IF j.script # "firecrawl" THEN [j EXCEPT !.pc = "fetch"]
                   ELSE IF can_continue(used, j.BATCH_SIZE * CREDITS_PER_SCRAPE)
                        THEN [j EXCEPT !.pc = "fetch", !.credits_used = used]
                        ELSE Finished([j EXCEPT !.credits_used = used], 0)
              /\ runs' = IF job.script = "firecrawl" THEN runs + 1 ELSE runs
              /\ last_load' = IF ok /\ job.script = "firecrawl"
                              THEN [done |-> TRUE, clean |-> TRUE,
                                    value |-> used]
                              ELSE last_load
    /\ audit' = [audit EXCEPT !.visited = <<>>]
    /\ UNCHANGED <<table, file, faults_left, batch_gate, save_history,
                   scrape_history>>

\* what the request of get_batch_providers comes to: status 200, another
\* status, or an exception of requests
FetchOutcomes == {"ok", "status", "exception"}

\* providers = supabase.get_batch_providers(BATCH_NUMBER, BATCH_SIZE) and the
\* test for an empty batch; only scrape_homestars.py lets the exception of
\* the request escape
BatchFetch ==
    /\ job.pc = "fetch"
    /\ \E o \in FetchOutcomes :
          LET rows == IF o = "ok"
                      THEN get_batch_providers(table, job.BATCH_NUMBER,
                                               job.BATCH_SIZE)
                      ELSE <<>>
          IN  /\ job' =
                   IF o = "exception" /\ job.script = "homestars"
                   THEN Finished(job, 1)
                   ELSE IF rows = <<>> THEN Finished(job, 0)
                   ELSE [job EXCEPT !.pc = "loop", !.providers = rows, !.i = 1,
                                    !.stats = NewStats(job.script, Len(rows))]
              /\ audit' = [audit EXCEPT
                    !.pages = IF o = "ok" THEN @ \cup {job.BATCH_NUMBER} ELSE @,
                    !.fetched_by = [r \in Rows |->
                        IF r \in Range(rows) THEN @[r] \cup {job.BATCH_NUMBER}
                        ELSE @[r]]]
    /\ UNCHANGED <<table, gate_vars>>

\* the loop goes on to the provider after the same one again
NextProvider_again(j) == [j EXCEPT !.pc = "loop"]

\* the for loop moves to the next provider, or ends after the last one
NextProvider(j) ==
    [j EXCEPT !.i = @ + 1,
              !.pc = IF j.i + 1 > Len(j.providers) THEN "summary" ELSE "loop"]

\* the provider of the iteration under way
Current == job.providers[job.i]

\* the iteration under way visits its provider
Visit == audit' = [audit EXCEPT !.visited = Append(@, Current)]

\* Python values, written as repr() prints them; Falsy holds those of the
\* values json.loads can return that a truth test takes as false
Falsy == {"None", "''", "False", "0", "0.0", "-0.0", "[]", "{}"}

Truthy(v) == v \notin Falsy

\* scrape_homestars.py, one iteration: scrape_business, update_provider (whose
\* request is not in a try block), the count
HomeIteration ==
    /\ job.pc = "loop"
    /\ job.script = "homestars"
    /\ \E success \in BOOLEAN, u \in UpdateOutcomes :
          LET done == [job EXCEPT !.update = [made |-> TRUE, provider |-> Current,
                                              returned |-> u = "ok"]]
              key == IF u # "ok" THEN "errors"
                     ELSE IF success THEN "found" ELSE "not_found"
          IN  /\ job' = IF u = "exception" THEN Finished(done, 1)
                        ELSE NextProvider([done EXCEPT !.stats[key] = @ + 1])
              /\ table' = IF u = "ok" /\ success THEN table \ {Current} ELSE table
    /\ Visit
    /\ UNCHANGED gate_vars

\* what the lookup may hold under each key of license_info: for the number
\* nothing, a number that is zero, a license; for the status nothing or one
\* of the three the prompt asks for; for the master electrician nothing, the
\* empty string, a boolean
EsaNumbers == {"None", "0", "'ECRA/ESA 7010353'"}

EsaStatuses == {"None", "'active'", "'inactive'", "'unknown'"}

EsaMasters == {"None", "''", "True", "False"}

LicenseInfos ==
    [esa_license_number : EsaNumbers, license_status : EsaStatuses,
     master_electrician : EsaMasters]

\* what json.loads gives when the answer is not a JSON object, which
\* search_for_license returns as it is: null, a list, a string
NonObjects ==
    {[json |-> "None"], [json |-> "[]"], [json |-> "'ECRA/ESA 7010353'"]}

\* what search_for_license may return
Lookups == LicenseInfos \cup NonObjects

\* the lookup is a dictionary, so that it has a .get
IsDict(license_info) == "json" \notin DOMAIN license_info

\* an update with no key in it
NoData == [k \in {} |-> "None"]

\* update_provider_license without the license_checked_at mark
update_provider_license_unmarked(license_info, outcome) ==
    IF ~IsDict(license_info)
    THEN [update_data |-> NoData, patched |-> FALSE, returned |-> FALSE,
          raised |-> TRUE]
    ELSE
    LET keys == {k \in {"esa_license_number", "license_status"} :
                    Truthy(license_info[k])}
                \cup {k \in {"master_electrician"} : license_info[k] # "None"}
        update_data == [k \in keys |-> license_info[k]]
    IN  [update_data |-> update_data,
         patched |-> keys # {},
         returned |-> IF keys = {} THEN TRUE ELSE outcome = "ok",
         raised |-> FALSE]

\* update_provider_license: the update it builds, whether the PATCH is
\* issued, what it returns, and whether an exception leaves it: on a lookup
\* that is not a dictionary license_info.get raises AttributeError before
\* anything is put in the update or sent
update_provider_license(license_info, outcome) ==
    IF ~IsDict(license_info)
    THEN [update_data |-> NoData, patched |-> FALSE, returned |-> FALSE,
          raised |-> TRUE]
    ELSE
    LET keys == {k \in {"esa_license_number", "license_status"} :
                    Truthy(license_info[k])}
                \cup {k \in {"master_electrician"} : license_info[k] # "None"}
                \cup {"license_checked_at"}
        update_data == [k \in keys |->
                          IF k = "license_checked_at" THEN "utcnow"
                          ELSE license_info[k]]
    IN  [update_data |-> update_data,
         patched |-> keys # {},
         returned |-> IF keys = {} THEN TRUE ELSE outcome = "ok",
         raised |-> FALSE]

\* the ESA count with the status looked at whether or not a number was found
EsaCount_status_always(st, license_info, updated) ==
    LET status == license_info.license_status
        a == IF status = "'active'" THEN 1 ELSE 0
        n == IF status = "'inactive'" THEN 1 ELSE 0
    IN  IF ~updated THEN [st EXCEPT !.errors = @ + 1]
        ELSE IF Truthy(license_info.esa_license_number)
             THEN [st EXCEPT !.licensed = @ + 1, !.active = @ + a,
                             !.inactive = @ + n]
             ELSE [st EXCEPT !.not_found = @ + 1, !.active = @ + a,
                             !.inactive = @ + n]

\* the counting of one ESA provider in main()
EsaCount(st, license_info, updated) ==
    LET status == license_info.license_status
        a == IF status = "'active'" THEN 1 ELSE 0
        n == IF status = "'inactive'" THEN 1 ELSE 0
    IN  IF ~updated THEN [st EXCEPT !.errors = @ + 1]
        ELSE IF Truthy(license_info.esa_license_number)
             THEN [st EXCEPT !.licensed = @ + 1, !.active = @ + a,
                             !.inactive = @ + n]
             ELSE [st EXCEPT !.not_found = @ + 1]

\* scrape_esa_licenses.py, one iteration: search_for_license returns the
\* parsed JSON of the answer, update_provider_license is called with it, and
\* the provider is counted; the exception update_provider_license raises on a
\* lookup that is not a dictionary is caught nowhere and ends main()
EsaIteration ==
    /\ job.pc = "loop"
    /\ job.script = "esa"
    /\ \E license_info \in Lookups :
       \E r \in {update_provider_license(license_info, u) :
                    u \in UpdateOutcomes} :
          LET done == [job EXCEPT
                         !.update = [made |-> TRUE, provider |-> Current,
                                     license_info |-> license_info,
                                     update_data |-> r.update_data,
                                     patched |-> r.patched,
                                     returned |-> r.returned,
                                     raised |-> r.raised]]
          IN  /\ job' = IF r.raised THEN Finished(done, 1)
                        ELSE NextProvider([done EXCEPT
                               !.stats = EsaCount(@, license_info, r.returned)])
              /\ table' = IF r.patched /\ r.returned
                              /\ "esa_license_number" \in DOMAIN r.update_data
                           THEN table \ {Current} ELSE table
    /\ Visit
    /\ UNCHANGED gate_vars

\* scrape_multi_source_ratings.py, one iteration: search_for_ratings (parsed
\* JSON as above), update_provider, the count
MultiIteration ==
    /\ job.pc = "loop"
    /\ job.script = "multi"
    /\ \/ /\ job' = Finished(job, 1)
          /\ table' = table
       \/ \E yelp \in {"None", "4.5"}, u \in UpdateOutcomes :
             LET done == [job EXCEPT
                            !.update = [made |-> TRUE, provider |-> Current,
                                        returned |-> u = "ok"]]
                 key == IF u = "ok" THEN "success" ELSE "errors"
             IN  /\ job' = NextProvider([done EXCEPT !.stats[key] = @ + 1])
                 /\ table' = IF u = "ok" /\ yelp # "None"
                              THEN table \ {Current} ELSE table
    /\ Visit
    /\ UNCHANGED gate_vars

\* scrape_firecrawl_ratings.py, one iteration up to the return of
\* update_provider: the credit check and its break, the scrape with the
\* search requests it sends, the PATCH, which takes the row out of the rows
\* lacking the field; the iteration is over when the update is not made,
\* and then nothing is booked for the scrape
FirecrawlIteration ==
    /\ job.pc = "loop"
    /\ job.script = "firecrawl"
    /\ IF ~can_continue(job.credits_used, CREDITS_PER_SCRAPE)
       THEN /\ job' = [job EXCEPT !.pc = "summary"]
            /\ UNCHANGED <<table, audit, scrape_history>>
       ELSE /\ LET done(u) == [job EXCEPT
                                  !.update = [made |-> TRUE, provider |-> Current,
                                              returned |-> u = "ok"]]
               IN  \/ \E yelp \in {"None", "4.5"} :
                      \E over \in {k > CREDITS_PER_SCRAPE :
                                      k \in 0..SEARCH_QUERIES} :
                         /\ job' = [done("ok") EXCEPT !.pc = "add"]
                         /\ table' = IF yelp # "None" THEN table \ {Current}
                                     ELSE table
                         /\ undercharged' = (undercharged \/ over)
                   \/ \E u \in UpdateOutcomes \ {"ok"} :
                         /\ job' = NextProvider([done(u) EXCEPT
                                      !.stats.errors = @ + 1])
                         /\ table' = table
                         /\ undercharged' = undercharged
            /\ consumed' = consumed + CREDITS_PER_SCRAPE
            /\ Visit
    /\ UNCHANGED <<file, faults_left, batch_gate, runs, last_load, save_history>>

\* the count of the success and tracker.add_credits(CREDITS_PER_SCRAPE) up to
\* the write: the total is increased in memory and the counter file is opened,
\* which empties it; when the open fails the iteration is over
FirecrawlAdd ==
    /\ job.pc = "add"
    /\ \E o \in OpenOutcomesOf(file) :
          LET used == job.credits_used + CREDITS_PER_SCRAPE
              counted == [job EXCEPT
                            !.stats.success = @ + 1,
                            !.stats.credits_used = @ + CREDITS_PER_SCRAPE,
                            !.credits_used = used]
          IN  /\ Fault(file, o) => faults_left > 0
              /\ faults_left' = IF Fault(file, o) THEN faults_left - 1
                                ELSE faults_left
              /\ file' = save_credits(file, used, o, 0).file
              /\ job' = IF o = "opened" THEN [counted EXCEPT !.pc = "save"]
                        ELSE NextProvider(counted)
              /\ added' = added + CREDITS_PER_SCRAPE
              /\ last_total' = used
              /\ last_save' = o
              /\ save_failed' = (save_failed \/ o = "open_fails")
    /\ last_load' = [last_load EXCEPT !.clean = FALSE]
    /\ UNCHANGED <<table, audit, batch_gate, runs, scrape_history>>

\* the end of the with block of _save_credits in the iteration: the text
\* reaches the file, in full or up to the character at which the write
\* fails, and the loop moves on
FirecrawlSave ==
    /\ job.pc = "save"
    /\ \E o \in CloseOutcomes :
          \E w \in Written(job.credits_used, o) :
             /\ Fault(file, o) => faults_left > 0
             /\ faults_left' = IF Fault(file, o) THEN faults_left - 1
                               ELSE faults_left
             /\ file' = save_credits(file, job.credits_used, o, w).file
             /\ last_save' = o
             /\ save_failed' = (save_failed \/ o = "write_fails")
    /\ job' = NextProvider(job)
    /\ UNCHANGED <<table, audit, batch_gate, runs, last_load, scrape_history,
                   added, last_total>>

\* the summary printed after the loop; main returns
BatchSummary ==
    /\ job.pc = "summary"
    /\ job' = Finished(job, 0)
    /\ UNCHANGED <<table, audit, gate_vars>>

\* the process is gone; the next batch is started with the next number
BatchExit ==
    /\ job.pc = "done"
    /\ job' = [job EXCEPT !.pc = "idle"]
    /\ UNCHANGED <<table, audit, gate_vars>>

BatchNext ==
    \/ BatchStart
    \/ BatchFetch
    \/ HomeIteration
    \/ EsaIteration
    \/ MultiIteration
    \/ FirecrawlIteration
    \/ FirecrawlAdd
    \/ FirecrawlSave
    \/ BatchSummary
    \/ BatchExit

BatchSpec == BatchInit /\ [][BatchNext]_vars

\* every step of a run that can be taken is taken in the end: each external
\* call returns or fails
FairBatchSpec == BatchSpec /\ WF_vars(BatchNext)

----------------------------------------------------------------------------
(* Properties of the credit gate *)

Failed(outcome) == outcome \in {"open_fails", "write_fails"}

\* a tracker of the client, between two calls or inside add_credits
AtClient(p) == pc[p] \in {"client", "client_save"}

\* C1, as claimed: as long as every add_credits(a) of a tracker came right
\* after can_continue(a) returned True, its credits_used never exceeds
\* MAX_CREDITS.
C1_NeverAboveCeiling ==
    \A p \in Procs :
        AtClient(p) /\ ~unchecked[p] => credits_used[p] <= MAX_CREDITS

\* C1, amended: as long as every add_credits(a) of a tracker came right after
\* can_continue(a) returned True, its credits_used is above MAX_CREDITS only
\* while it still is the value loaded from the counter file; every value
\* produced by a gated add_credits is within MAX_CREDITS.
C1_GatedAddsStayUnderCeiling ==
    \A p \in Procs :
        AtClient(p) /\ ~unchecked[p] =>
            /\ credits_used[p] >= loaded[p]
            /\ credits_used[p] <= MAX_CREDITS \/ credits_used[p] = loaded[p]

\* gated adds have taken the counter exactly to the ceiling
C1_Witness ==
    \E p \in Procs :
        /\ pc[p] = "client"
        /\ ~unchecked[p]
        /\ loaded[p] < MAX_CREDITS
        /\ credits_used[p] = MAX_CREDITS

\* C2, as claimed: over any sequence of invocations that run one at a time,
\* the credits consumed by scrapes, on top of what the counter file stood at,
\* never exceed MAX_CREDITS.
C2_TotalWithinCeiling ==
    (base >= 0 /\ base <= MAX_CREDITS) => base + consumed <= MAX_CREDITS

\* C3: every can_continue(needed) call returns True exactly when
\* credits_used + needed <= MAX_CREDITS.
C3_GateCorrect ==
    \A p \in Procs :
        gate[p].at # "none" =>
            (gate[p].result <=> gate[p].used + gate[p].needed <= MAX_CREDITS)

\* a check that asks for exactly what is left, and is granted
C3_Witness ==
    \E p \in Procs :
        /\ gate[p].at = "client"
        /\ gate[p].needed > 0
        /\ gate[p].used + gate[p].needed = MAX_CREDITS
        /\ gate[p].result

\* C4: with one writer, a new tracker loads the credits_used the previous
\* tracker had after its last add_credits when that save succeeded, and as
\* long as no save has failed it loads the first loaded value plus every
\* amount added since.
C4_RoundTrip ==
    [][\A p \in Procs :
          (pc[p] = "idle" /\ pc'[p] = "client") =>
              /\ last_save = "ok" => credits_used'[p] = last_total
              /\ ~save_failed => credits_used'[p] = base + added]_vars

\* adds of 5 in all on a fresh counter, then a new tracker that loads 5
C4_Witness ==
    \E p \in Procs :
        /\ pc[p] = "client"
        /\ gate[p].at = "none"
        /\ runs >= 2
        /\ base = 0
        /\ added = 5
        /\ ~save_failed
        /\ loaded[p] = 5
        /\ credits_used[p] = 5

\* a file whose text has a character that belongs to no integer literal
HasNonNumericChar(s) ==
    \E k \in 1..Len(s) :
        ~IsDigit(s[k]) /\ ~IsSpace(s[k]) /\ s[k] \notin {"-", "+", "_"}

\* absent, unreadable, empty or non-numeric
Unusable(f) ==
    \/ ~f.exists
    \/ ~f.openable
    \/ f.content = <<>>
    \/ HasNonNumericChar(f.content)

\* C5: when the counter file is absent, unreadable, empty or non-numeric, the
\* tracker is constructed with credits_used = 0 and the process goes on to
\* its batch check; no exception ends it.
C5_LoadFailsOpen ==
    [][\A p \in Procs :
          (pc[p] = "idle" /\ pc'[p] # "idle" /\ env_ok'[p] /\ Unusable(file)) =>
              /\ pc'[p] = "pregate"
              /\ credits_used'[p] = 0
              /\ loaded'[p] = 0]_vars

\* a process that has just loaded a non-numeric counter file
C5_Witness ==
    \E p \in Procs :
        /\ pc[p] = "pregate"
        /\ file.exists /\ file.openable
        /\ HasNonNumericChar(file.content)
        /\ credits_used[p] = 0

\* C6, as claimed: credits_used is non-negative in every reachable state.
C6_NonNegative ==
    \A p \in Procs : credits_used[p] >= 0

\* C7: an add_credits whose save fails, at the open or at the write, still
\* increases credits_used by exactly the amount; the iteration is counted as a
\* success and not as an error, the loop moves to the next provider, and the
\* next check is made on the in-memory total (the loaded value plus every
\* add).
C7_SaveFailureNonFatal ==
    /\ [][\A p \in Procs :
            /\ (pc[p] = "update" /\ added' # added) =>
                  /\ credits_used'[p] = credits_used[p] + CREDITS_PER_SCRAPE
                  /\ stats'[p].errors = stats[p].errors
                  /\ stats'[p].success = stats[p].success + 1
                  /\ pc'[p] = "save" \/ last_save' = "open_fails"
            /\ (\/ pc[p] = "update" /\ added' # added /\ last_save' = "open_fails"
                \/ pc[p] = "save" /\ pc'[p] # "save") =>
                  /\ credits_used'[p] =
                        loaded[p] + CREDITS_PER_SCRAPE * stats'[p].success
                  /\ stats'[p].errors = stats[p].errors
                  /\ i'[p] = i[p] + 1
                  /\ pc'[p] = IF i[p] < providers[p] THEN "gate" ELSE "summary"]_vars
    /\ [](\A p \in Procs :
            (gate[p].at = "loop" /\ pc[p] = "scrape") =>
                gate[p].used = loaded[p] + CREDITS_PER_SCRAPE * stats[p].success)

\* the check after a failed save: granted on a total the file does not hold
C7_Witness ==
    \E p \in Procs :
        /\ pc[p] = "scrape"
        /\ Failed(last_save)
        /\ stats[p].success >= 1
        /\ gate[p].used = credits_used[p]
        /\ load_credits(file).value # credits_used[p]

\* C8: a new invocation loads less than the counter stood at plus all that
\* was added since only if a save has failed; and such an execution exists
\* (the witness).
C8_UnderReportOnlyAfterFailedSave ==
    \A p \in Procs :
        (pc[p] = "pregate" /\ loaded[p] < base + added) => save_failed

\* the latest add_credits could not be saved, its process is gone, and the
\* next invocation has loaded less than was added
C8_Witness ==
    \E p \in Procs :
        /\ pc[p] = "pregate"
        /\ runs >= 2
        /\ Failed(last_save)
        /\ base >= 0
        /\ loaded[p] < added

\* C9: a provider's scrape starts only after can_continue(CREDITS_PER_SCRAPE)
\* returned True in the same iteration, on the credits_used of that moment.
C9_ScrapeOnlyAfterGate ==
    \A p \in Procs :
        pc[p] \in {"scrape", "update"} =>
            /\ gate[p].at = "loop"
            /\ gate[p].iter = i[p]
            /\ gate[p].needed = CREDITS_PER_SCRAPE
            /\ gate[p].result
            /\ gate[p].used = credits_used[p]

\* a scrape about to start in a later iteration, after an add_credits
C9_Witness ==
    \E p \in Procs :
        /\ pc[p] = "scrape"
        /\ i[p] >= 2
        /\ credits_used[p] > loaded[p]

\* the loop check has returned False in this process
Stopped(p) == gate[p].at = "loop" /\ ~gate[p].result

\* C10: once the loop check has returned False the process is at its summary
\* or finished with status 0, and from then on nothing is scraped, the counter
\* and its file do not change and no statistics are counted.
C10_StopIsFinal ==
    /\ [](\A p \in Procs :
            Stopped(p) =>
                /\ pc[p] \in {"summary", "done"}
                /\ pc[p] = "done" => exit_status[p] = 0)
    /\ [][\A p \in Procs :
            Stopped(p) =>
                /\ file' = file
                /\ consumed' = consumed
                /\ added' = added
                /\ pc'[p] # "idle" =>
                      /\ credits_used'[p] = credits_used[p]
                      /\ stats'[p] = stats[p]
                      /\ i'[p] = i[p]]_vars

\* a process that stopped with providers left over and finished with status 0
C10_Witness ==
    \E p \in Procs :
        /\ Stopped(p)
        /\ pc[p] = "done"
        /\ exit_status[p] = 0
        /\ i[p] <= providers[p]
        /\ stats[p].success + stats[p].errors < stats[p].total

----------------------------------------------------------------------------
(* Properties of the batch loop and of the tracker's other methods *)

\* C11, as claimed: every iteration that scraped is followed by
\* add_credits(CREDITS_PER_SCRAPE) before the next gate check, so whenever a
\* process stands at a gate check or at its summary, its counter has grown by
\* CREDITS_PER_SCRAPE for each of the i - 1 iterations that scraped.
C11_EveryScrapeCounted ==
    \A p \in Procs :
        pc[p] \in {"gate", "summary"} =>
            credits_used[p] = loaded[p] + CREDITS_PER_SCRAPE * (i[p] - 1)

\* C12: a call of can_continue or of get_remaining leaves credits_used and
\* the counter file as they were.
C12_ChecksArePure ==
    [][\A p \in Procs :
          (\/ gate'[p] # gate[p] /\ gate'[p].at = "client"
           \/ remaining'[p] # remaining[p] /\ remaining'[p].called)
          => /\ credits_used' = credits_used
             /\ file' = file]_vars

\* both methods were called on a tracker that loaded 2897 and has added nothing
C12_Witness ==
    \E p \in Procs :
        /\ gate[p].at = "client"
        /\ gate[p].needed = CREDITS_PER_SCRAPE
        /\ remaining[p].called
        /\ last_save = "none"
        /\ credits_used[p] = MAX_CREDITS - 3
        /\ file = TextFile(<<"2", "8", "9", "7">>)

\* C13: the construction of a tracker leaves the counter file as it was, and
\* loads the value the previous load returned when no add_credits came between
\* the two.
C13_LoadIdempotent ==
    [][\A p \in Procs :
          pc[p] = "idle" /\ pc'[p] = "client"
          => /\ file' = file
             /\ last_load.done /\ last_load.clean
                => loaded'[p] = last_load.value]_vars

\* the second tracker, constructed with no add_credits since the first,
\* loaded 2896 again and the file is what it was
C13_Witness ==
    \E p \in Procs :
        /\ runs = 2
        /\ last_save = "none"
        /\ pc[p] = "client"
        /\ loaded[p] = base
        /\ loaded[p] = MAX_CREDITS - 4
        /\ file = TextFile(<<"\f", " ", "۲", "8", "۹", "۶", " ", "\r", "\n">>)

\* C14: get_remaining() returns MAX_CREDITS - credits_used; at one credit
\* below the ceiling can_continue(1) is True and can_continue(2) is False; at
\* the ceiling can_continue(a) is False for every a >= 1.
C14_RemainingAndBoundary ==
    \A p \in Procs :
        /\ remaining[p].called
           => remaining[p].value = MAX_CREDITS - remaining[p].used
        /\ gate[p].at # "none" /\ gate[p].used = MAX_CREDITS - 1
           => /\ gate[p].needed = 1 => gate[p].result
              /\ gate[p].needed = 2 => ~gate[p].result
        /\ gate[p].at # "none" /\ gate[p].used = MAX_CREDITS /\ gate[p].needed >= 1
           => ~gate[p].result

\* a tracker that loaded 2899 and added 1: get_remaining() returned 0 and
\* can_continue(1) returned False
C14_Witness ==
    \E p \in Procs :
        /\ loaded[p] = MAX_CREDITS - 1
        /\ credits_used[p] = MAX_CREDITS
        /\ remaining[p] = [called |-> TRUE, used |-> MAX_CREDITS, value |-> 0]
        /\ gate[p].at = "client"
        /\ gate[p].needed = 1
        /\ gate[p].used = MAX_CREDITS
        /\ ~gate[p].result

\* C15: when batch processes may overlap, the counter file can end below
\* what the processes added together although no save failed, and the spend
\* passes MAX_CREDITS with every can_continue check True; as long as no two
\* processes were active together the file, once written, falls behind the
\* added total only after a failed save.
C15_LostUpdateNeedsOverlap ==
    (/\ \A p \in Procs : pc[p] # "save"
     /\ load_credits(file).value < base + added) => save_failed \/ overlapped

\* two processes loaded 2897 together, each passed both checks, scraped once
\* and added 2: the file holds 2899 while 2901 credits are spent
C15_Witness ==
    \E p, q \in Procs :
        /\ p # q
        /\ overlapped
        /\ ~save_failed
        /\ base = MAX_CREDITS - 3
        /\ \A r \in {p, q} :
              /\ pc[r] = "done"
              /\ loaded[r] = base
              /\ gate[r].at = "loop"
              /\ gate[r].result
              /\ credits_used[r] = base + CREDITS_PER_SCRAPE
        /\ added = 2 * CREDITS_PER_SCRAPE
        /\ consumed = added
        /\ load_credits(file).value = base + CREDITS_PER_SCRAPE
        /\ load_credits(file).value < base + added
        /\ base + consumed > MAX_CREDITS

\* the batch check of process p fails
OverBudget(p) ==
    credits_used[p] + BATCH_SIZE[p] * CREDITS_PER_SCRAPE > MAX_CREDITS

\* C16: a process whose batch estimate does not fit under the ceiling goes
\* from the batch check straight to its exit with status 0: no providers
\* fetched, nothing scraped, no statistics, credits_used and the counter file
\* unchanged.
C16_PreBatchStop ==
    [][\A p \in Procs :
          pc[p] = "pregate" /\ pc'[p] # "pregate" /\ OverBudget(p)
          => /\ pc'[p] = "done"
             /\ exit_status'[p] = 0
             /\ providers'[p] = 0
             /\ stats'[p] = NoStats
             /\ consumed' = consumed
             /\ added' = added
             /\ credits_used' = credits_used
             /\ file' = file]_vars

\* a run on the counter file 2897 with BATCH_SIZE 2 stopped at the batch check
C16_Witness ==
    \E p \in Procs :
        /\ pc[p] = "done"
        /\ gate[p].at = "batch"
        /\ ~gate[p].result
        /\ exit_status[p] = 0
        /\ BATCH_SIZE[p] = 2
        /\ credits_used[p] = MAX_CREDITS - 3
        /\ providers[p] = 0
        /\ consumed = 0
        /\ file = TextFile(<<"2", "8", "9", "7">>)

\* C17: in a run that fetched at most BATCH_SIZE providers, every loop check
\* returns True.
C17_LoopCheckPassesWithinBatch ==
    \A p \in Procs :
        gate[p].at = "loop" /\ providers[p] <= BATCH_SIZE[p] => gate[p].result

\* the last provider of a full batch passes the loop check with exactly
\* CREDITS_PER_SCRAPE left
C17_Witness ==
    \E p \in Procs :
        /\ gate[p].at = "loop"
        /\ gate[p].result
        /\ BATCH_SIZE[p] = 2
        /\ providers[p] = BATCH_SIZE[p]
        /\ gate[p].iter = providers[p]
        /\ gate[p].used = loaded[p] + CREDITS_PER_SCRAPE
        /\ gate[p].used + CREDITS_PER_SCRAPE = MAX_CREDITS

\* C18: a provider counted as a success is charged CREDITS_PER_SCRAPE, in the
\* counter and in the statistics, however many search requests were sent.
C18_FlatCharge ==
    [][\A p \in Procs :
          pc[p] = "update" /\ stats'[p].success = stats[p].success + 1
          => /\ credits_used'[p] = credits_used[p] + CREDITS_PER_SCRAPE
             /\ stats'[p].credits_used =
                   stats[p].credits_used + CREDITS_PER_SCRAPE]_vars

\* one provider was scraped with more than CREDITS_PER_SCRAPE requests sent
\* and charged CREDITS_PER_SCRAPE
C18_Witness ==
    \E p \in Procs :
        /\ undercharged
        /\ stats[p].success = 1
        /\ stats[p].errors = 0
        /\ credits_used[p] = loaded[p] + CREDITS_PER_SCRAPE
        /\ credits_used[p] - loaded[p] < SEARCH_QUERIES
        /\ consumed = CREDITS_PER_SCRAPE
        /\ added = CREDITS_PER_SCRAPE

\* C19, as claimed: no step lowers the value the counter file parses to,
\* steps of an add_credits whose save fails included.
C19_PersistedNeverDecreases ==
    [][load_credits(file').value >= load_credits(file).value]_vars

\* C20: between iterations and at the summary, the statistics' credits are
\* CREDITS_PER_SCRAPE per success and equal what the counter grew by since it
\* was loaded, and successes plus errors count the iterations that passed the
\* loop check.
C20_StatsAgree ==
    \A p \in Procs :
        pc[p] \in {"gate", "summary"} =>
            /\ stats[p].credits_used = CREDITS_PER_SCRAPE * stats[p].success
            /\ stats[p].credits_used = credits_used[p] - loaded[p]
            /\ stats[p].success + stats[p].errors = i[p] - 1

\* a batch of two at its summary: one success, one error
C20_Witness ==
    \E p \in Procs :
        /\ pc[p] = "summary"
        /\ providers[p] = 2
        /\ stats[p].success = 1
        /\ stats[p].errors = 1
        /\ stats[p].credits_used = CREDITS_PER_SCRAPE
        /\ credits_used[p] = loaded[p] + CREDITS_PER_SCRAPE

----------------------------------------------------------------------------
(* Properties of the batch scripts *)

\* C21, as claimed: no row is fetched by two batches of the HomeStars
\* scraper, and once batches 1..k have had their fetch answered, with k
\* batches enough for the rows that lacked the field before batch 1, every
\* such row has been fetched by some batch.
C21_BatchesCoverEveryRowOnce ==
    job.script = "homestars" =>
        LET k == Cardinality(audit.pages)
        IN  /\ \A r \in Rows : Cardinality(audit.fetched_by[r]) <= 1
            /\ audit.pages = 1..k
               /\ k * job.BATCH_SIZE >= Cardinality(audit.before)
               /\ job.pc \notin {"fetch"}
               => \A r \in audit.before : audit.fetched_by[r] # {}

\* the providers of a run are distinct and visited in the order returned
VisitedInOrder ==
    /\ Len(audit.visited) <= Len(job.providers)
    /\ \A n \in 1..Len(audit.visited) : audit.visited[n] = job.providers[n]
    /\ \A m, n \in 1..Len(job.providers) :
          m # n => job.providers[m] # job.providers[n]

\* C22: in each of the four scripts a run visits the providers it fetched in
\* the order returned, each at most once, so at most len(providers)
\* iterations; and every run that has started reaches the end of main().
C22_RunsTerminate ==
    /\ []VisitedInOrder
    /\ (job.pc \in {"fetch", "loop", "add", "save", "summary"})
          ~> (job.pc = "done")

\* an ESA run of two providers that went through both and returned
C22_Witness ==
    /\ job.script = "esa"
    /\ job.pc = "done"
    /\ job.exit_status = 0
    /\ Len(job.providers) = 2
    /\ audit.visited = job.providers
    /\ job.i = 3

\* C23: in the ESA loop active + inactive never exceeds licensed, every
\* provider gone through is counted as exactly one of licensed, not_found and
\* errors, and after the last provider the three add up to total.
C23_EsaStatsAddUp ==
    job.script = "esa" =>
        LET st == job.stats
        IN  /\ st.active + st.inactive <= st.licensed
            /\ job.pc = "loop"
               => st.licensed + st.not_found + st.errors = job.i - 1
            /\ job.pc = "summary"
               => st.licensed + st.not_found + st.errors = st.total

\* a batch of two at its summary: one inactive license, one failed update
C23_Witness ==
    /\ job.script = "esa"
    /\ job.pc = "summary"
    /\ job.stats.total = 2
    /\ job.stats.licensed = 1
    /\ job.stats.inactive = 1
    /\ job.stats.active = 0
    /\ job.stats.not_found = 0
    /\ job.stats.errors = 1

\* the keys update_provider_license copies from the lookup
LicenseKeys == {"esa_license_number", "license_status", "master_electrician"}

\* a value that is neither None nor an empty string
NonEmpty(v) == v \notin {"None", "''"}

\* C24, as claimed: every update_provider_license call issues the PATCH with
\* license_checked_at in it, and a key of the lookup is in the update only
\* when the lookup holds a non-empty value for it.
C24_CopiedOnlyWhenNonEmpty ==
    job.script = "esa" /\ job.update.made =>
        /\ job.update.patched
        /\ "license_checked_at" \in DOMAIN job.update.update_data
        /\ \A k \in LicenseKeys :
              k \in DOMAIN job.update.update_data
              => NonEmpty(job.update.license_info[k])

\* C24, amended: on a lookup that is a dictionary every update_provider_license
\* call issues the PATCH with license_checked_at in it and raises nothing;
\* esa_license_number and license_status are in the update exactly when the
\* lookup holds a true value for them, and master_electrician exactly when
\* the lookup holds anything but None for it (False and the empty string
\* included); the values are copied as they are. On a lookup that is not a
\* dictionary the call raises with nothing in the update and no PATCH
\* issued, the provider is not marked as checked, nothing is counted for it
\* and the run ends there with status 1.
C24_AlwaysMarkedAsChecked ==
    job.script = "esa" /\ job.update.made =>
        LET data == job.update.update_data
            info == job.update.license_info
        IN  IF IsDict(info)
            THEN /\ ~job.update.raised
                 /\ job.update.patched
                 /\ "license_checked_at" \in DOMAIN data
                 /\ DOMAIN data \subseteq LicenseKeys \cup {"license_checked_at"}
                 /\ \A k \in {"esa_license_number", "license_status"} :
                       k \in DOMAIN data <=> Truthy(info[k])
                 /\ "master_electrician" \in DOMAIN data
                    <=> info.master_electrician # "None"
                 /\ \A k \in LicenseKeys \cap DOMAIN data : data[k] = info[k]
            ELSE /\ job.update.raised
                 /\ ~job.update.patched
                 /\ ~job.update.returned
                 /\ DOMAIN data = {}
                 /\ job.pc \in {"done", "idle"}
                 /\ job.exit_status = 1
                 /\ job.providers[job.i] = job.update.provider
                 /\ job.stats.licensed + job.stats.not_found + job.stats.errors
                       = job.i - 1

\* a provider without a license number whose lookup said master_electrician
\* False: the PATCH holds master_electrician and license_checked_at only
C24_Witness ==
    /\ job.script = "esa"
    /\ job.update.made
    /\ job.update.patched
    /\ job.update.license_info.esa_license_number = "None"
    /\ job.update.license_info.license_status = "None"
    /\ job.update.license_info.master_electrician = "False"
    /\ DOMAIN job.update.update_data = {"master_electrician", "license_checked_at"}
    /\ job.update.update_data["master_electrician"] = "False"
    /\ job.stats.not_found = 1

====
